---- MODULE Spec2Model ----
(***************************************************************************)
(* A model of ifttt/triggers.py: the trigger views of the Wikipedia        *)
(* channel for IFTTT.  One invocation of a view is a sequence of steps     *)
(* (post, the cache read, the upstream fetch, the cache write, the parse,  *)
(* the truncation to the limit); the module-level cache and the class-     *)
(* level query_params dictionaries are shared by all invocations.          *)
(***************************************************************************)
EXTENDS Integers, Sequences, FiniteSets, TLC

VARIABLES
    cache,         \* the module-level SimpleCache: key -> [expires, value]
    now,           \* the clock the cache reads (seconds)
    query_params,  \* the class attribute ArticleRevisions/UserRevisions.query_params
    pc,            \* where each worker's invocation stands
    cls,           \* the view class each worker is running
    params,        \* self.params
    fields,        \* self.fields
    wiki,          \* self.wiki
    url,           \* the local url (or hashtag cache key) of get_feed/get_query/get_data
    resp,          \* the local feed / resp / res: what cache.get or the upstream returned
    items,         \* what get_data returned
    data,          \* the data of the response
    status,        \* the HTTP status of the response (0: none yet)
    log,           \* the records the invocation wrote to the log
    calls,         \* the upstream calls the invocation has made
    failed         \* the key of the last upstream call that failed, until an
                   \* invocation gets past its cache read and upstream call

vars == <<cache, now, query_params, pc, cls, params, fields, wiki, url, resp,
          items, data, status, log, calls, failed>>

(***************************************************************************)
(* Bounds of the model.                                                    *)
(***************************************************************************)
MaxLen == 2        \* longest list an upstream payload carries
MaxLimit == 2      \* largest limit a request asks for
MaxTicks == 3      \* how often the clock advances
TickSeconds == 150 \* seconds per clock step

Procs == {1, 2}

(***************************************************************************)
(* Python values.  None is the object None where a payload or a request    *)
(* body is expected, NoneStr where a string is expected (TLC compares      *)
(* strings only with strings); EmptyDict is {}.                            *)
(***************************************************************************)
None == [none |-> TRUE]
NoneStr == "<None>"
EmptyDict == [k \in {} |-> TRUE]

\* d.get(k) of a dictionary of strings
DictGet(d, k) == IF k \in DOMAIN d THEN d[k] ELSE NoneStr

\* not v, of a string or None
FalsyStr(v) == v = NoneStr \/ v = ""

\* bool(v) of what the cache or an upstream call returned: None is false, a
\* parsed feed (a FeedParserDict, which always has keys) is true, the rows of
\* the hashtag index are true when there is one, a JSON object when it has a key
Truthy(v) ==
    CASE v = None -> FALSE
      [] "entries" \in DOMAIN v -> TRUE
      [] "rows" \in DOMAIN v -> v.rows # <<>>
      [] OTHER -> DOMAIN v # {}

\* seq[:n] for n >= 0
Take(seq, n) == SubSeq(seq, 1, IF n < Len(seq) THEN n ELSE Len(seq))

\* map(f, seq) is written [i \in 1..Len(seq) |-> f(seq[i])] where it is used.

\* filter(keep, seq) for the positions keep holds of
RECURSIVE FilterIdx(_, _, _)
FilterIdx(seq, keep, i) ==
    IF i > Len(seq) THEN <<>>
    ELSE (IF keep[i] THEN <<seq[i]>> ELSE <<>>) \o FilterIdx(seq, keep, i + 1)

(***************************************************************************)
(* Module constants.                                                       *)
(***************************************************************************)
CACHE_EXPIRATION == 5 * 60
DEFAULT_LANG == "en"
TEST_FIELDS == {"test", "Coffee", "ClueBot"}
DEFAULT_RESP_LIMIT == 50

(***************************************************************************)
(* The view classes and their class attributes.                            *)
(***************************************************************************)
FeedClasses == {"PictureOfTheDay", "ArticleOfTheDay", "WordOfTheDay"}
QueryClasses == {"NewArticle", "ArticleRevisions", "UserRevisions"}
ParamClasses == {"ArticleRevisions", "UserRevisions"}
Classes == FeedClasses \cup QueryClasses \cup {"NewHashtag"}

default_fields(c) ==
    CASE c = "PictureOfTheDay" -> EmptyDict
      [] c \in {"ArticleOfTheDay", "WordOfTheDay", "NewArticle"} ->
            [lang |-> DEFAULT_LANG]
      [] c = "NewHashtag" -> [lang |-> DEFAULT_LANG, hashtag |-> "test"]
      [] c = "ArticleRevisions" -> [lang |-> DEFAULT_LANG, title |-> "Coffee"]
      [] c = "UserRevisions" -> [lang |-> DEFAULT_LANG, user |-> "ClueBot"]

\* the feed attribute of the feed views
feed_name(c) ==
    CASE c = "PictureOfTheDay" -> "potd"
      [] c = "ArticleOfTheDay" -> "featured"
      [] c = "WordOfTheDay" -> "wotd"

\* the site of self.wiki = '%s.<site>' % lang, and PictureOfTheDay.wiki
wiki_of(c, flds) ==
    CASE c = "PictureOfTheDay" -> <<"commons", "wikimedia.org">>
      [] c = "WordOfTheDay" -> <<flds["lang"], "wiktionary.org">>
      [] OTHER -> <<flds["lang"], "wikipedia.org">>

\* the key of query_params a view substitutes a field into, and that field
param_field(c) == IF c = "ArticleRevisions" THEN "title" ELSE "user"

\* the list/prop a query asks for
query_list(c) ==
    CASE c = "NewArticle" -> "recentchanges"
      [] c = "ArticleRevisions" -> "revisions"
      [] c = "UserRevisions" -> "usercontribs"

(***************************************************************************)
(* The identifier and time codec of ifttt/utils.py.  A time is the tuple   *)
(* <<year, month, day, hour, minute, second>> (UTC); the ISO-8601 string   *)
(* "YYYY-MM-DDTHH:MM:SSZ" is [iso |-> that tuple, tz |-> "Z"].             *)
(***************************************************************************)
\* days from 1970-01-01 to the civil date y-m-d
DaysFromCivil(y, m, d) ==
    LET yy == IF m <= 2 THEN y - 1 ELSE y
        era == yy \div 400
        yoe == yy - era * 400
        mp == IF m > 2 THEN m - 3 ELSE m + 9
        doy == (153 * mp + 2) \div 5 + d - 1
        doe == yoe * 365 + yoe \div 4 - yoe \div 100 + doy
    IN  era * 146097 + doe - 719468

\* utc_to_epoch(struct_time): seconds since the epoch
utc_to_epoch(t) ==
    DaysFromCivil(t[1], t[2], t[3]) * 86400 + t[4] * 3600 + t[5] * 60 + t[6]

\* utc_to_iso8601(struct_time)
utc_to_iso8601(t) == [iso |-> t, tz |-> "Z"]

\* iso8601_to_epoch(string)
iso8601_to_epoch(s) == utc_to_epoch(s.iso)

\* url_to_uuid5(url): the name-based UUID of the url in a fixed namespace
url_to_uuid5(u) == <<"uuid5", u>>

\* find_hashtags(comment): the words of the comment's tokens that carry a '#'
RECURSIVE find_hashtags(_)
find_hashtags(comment) ==
    IF comment = <<>> THEN <<>>
    ELSE (IF Head(comment).hash THEN <<Head(comment).word>> ELSE <<>>)
         \o find_hashtags(Tail(comment))

(***************************************************************************)
(* The feed views.  A url is <<scheme, rest>>; a feed entry is             *)
(* [id |-> url, published_parsed |-> time].  The scraping of the entry's   *)
(* summary markup (lxml, select) adds fields that no check here reads and  *)
(* is left out: the markup is taken to be well formed.                     *)
(***************************************************************************)
\* a < b for time tuples, as Python orders struct_time values
RECURSIVE TupleLess(_, _, _)
TupleLess(a, b, i) ==
    IF i > Len(a) THEN FALSE
    ELSE IF a[i] < b[i] THEN TRUE
    ELSE IF a[i] > b[i] THEN FALSE
    ELSE TupleLess(a, b, i + 1)

\* x put into a list sorted most recent first, behind the entries that are
\* not older than it (list.sort is stable, also with reverse=True)
InsertDesc(sorted, x) ==
    LET older == {i \in 1..Len(sorted) :
                    TupleLess(sorted[i].published_parsed, x.published_parsed, 1)}
        at == IF older = {} THEN Len(sorted) + 1
              ELSE CHOOSE i \in older : \A j \in older : i <= j
    IN  SubSeq(sorted, 1, at - 1) \o <<x>> \o SubSeq(sorted, at, Len(sorted))

\* the sort with the order reversed: oldest first
InsertAsc(sorted, x) ==
    LET newer == {i \in 1..Len(sorted) :
                    TupleLess(x.published_parsed, sorted[i].published_parsed, 1)}
        at == IF newer = {} THEN Len(sorted) + 1
              ELSE CHOOSE i \in newer : \A j \in newer : i <= j
    IN  SubSeq(sorted, 1, at - 1) \o <<x>> \o SubSeq(sorted, at, Len(sorted))

RECURSIVE sort_entries_ascending(_)
sort_entries_ascending(entries) ==
    IF entries = <<>> THEN <<>>
    ELSE InsertAsc(sort_entries_ascending(SubSeq(entries, 1, Len(entries) - 1)),
                   entries[Len(entries)])

RECURSIVE SortDesc(_)
SortDesc(entries) ==
    IF entries = <<>> THEN <<>>
    ELSE InsertDesc(SortDesc(SubSeq(entries, 1, Len(entries) - 1)),
                    entries[Len(entries)])

\* feed.entries.sort(key=operator.attrgetter('published_parsed'), reverse=True)
sort_entries(entries) == SortDesc(entries)

\* the id left as the feed gives it
https_of_unchanged(u) == u

\* entry.id.replace('http:', 'https:')
https_of(u) == IF u[1] = "http" THEN <<"https", u[2]>> ELSE u

\* parse_entry with the timestamp taken as local time (time.mktime) one zone
\* east of UTC
parse_entry_local_time(entry) ==
    LET meta_id == url_to_uuid5(https_of(entry.id))
        date == entry.published_parsed
    IN  [created_at |-> utc_to_iso8601(date),
         entry_id |-> meta_id,
         url |-> entry.id,
         meta |-> [id |-> meta_id, timestamp |-> utc_to_epoch(date) - 3600]]

\* BaseFeaturedFeedTriggerView.parse_entry
parse_entry(entry) ==
    LET meta_id == url_to_uuid5(https_of(entry.id))
        date == entry.published_parsed
    IN  [created_at |-> utc_to_iso8601(date),
         entry_id |-> meta_id,
         url |-> entry.id,
         meta |-> [id |-> meta_id, timestamp |-> utc_to_epoch(date)]]

\* BaseFeaturedFeedTriggerView.get_data, after get_feed returned feed
feed_get_data(feed) ==
    LET sorted == sort_entries(feed.entries)
    IN  [ok |-> TRUE, items |-> [i \in 1..Len(sorted) |-> parse_entry(sorted[i])]]

(***************************************************************************)
(* The API query views.  A JSON object is a function of its keys.          *)
(***************************************************************************)
\* BaseAPIQueryTriggerView.parse_result
base_parse_result(result) ==
    [created_at |-> result.date,
     meta |-> [id |-> url_to_uuid5(result.url),
               timestamp |-> iso8601_to_epoch(result.date)]]

\* NewArticle.parse_result
NewArticle_parse_result(rev, w) ==
    LET ret == [date |-> rev.timestamp,
                url |-> <<"https", w, "wiki", rev.title>>,
                user |-> rev.user,
                size |-> rev.newlen - rev.oldlen,
                comment |-> rev.comment,
                title |-> rev.title]
    IN  base_parse_result(ret) @@ ret

\* NewArticle.get_data, after get_query returned api_resp
NewArticle_get_data(api_resp, w) ==
    IF "query" \in DOMAIN api_resp /\ "recentchanges" \in DOMAIN api_resp.query
    THEN LET pages == api_resp.query.recentchanges
         IN  [ok |-> TRUE,
              items |-> [i \in 1..Len(pages) |-> NewArticle_parse_result(pages[i], w)]]
    ELSE [ok |-> TRUE, items |-> <<>>]

\* ArticleRevisions.parse_result
ArticleRevisions_parse_result(revision, w, prm) ==
    LET ret == [date |-> revision.timestamp,
                url |-> <<"https", w, "diff", revision.revid, revision.parentid>>,
                user |-> revision.user,
                size |-> revision.size,
                comment |-> revision.comment,
                title |-> prm.triggerFields.title]
    IN  base_parse_result(ret) @@ ret

\* ArticleRevisions.get_data, after get_query returned api_resp: a missing key
\* is a KeyError, caught; keys()[0] of an empty pages object is an IndexError,
\* which nothing catches
ArticleRevisions_get_data(api_resp, w, prm) ==
    IF ~("query" \in DOMAIN api_resp /\ "pages" \in DOMAIN api_resp.query)
    THEN [ok |-> TRUE, items |-> <<>>]
    ELSE IF DOMAIN api_resp.query.pages = {}
    THEN [ok |-> FALSE, items |-> <<>>]
    ELSE LET page_id == CHOOSE k \in DOMAIN api_resp.query.pages : TRUE
             page == api_resp.query.pages[page_id]
         IN  IF "revisions" \notin DOMAIN page
             THEN [ok |-> TRUE, items |-> <<>>]
             ELSE [ok |-> TRUE,
                   items |-> [i \in 1..Len(page.revisions) |->
                       ArticleRevisions_parse_result(page.revisions[i], w, prm)]]

\* UserRevisions.parse_result
UserRevisions_parse_result(contrib, w, prm) ==
    LET ret == [date |-> contrib.timestamp,
                url |-> <<"https", w, "diff", contrib.revid, contrib.parentid>>,
                user |-> prm.triggerFields.user,
                size |-> contrib.size,
                comment |-> contrib.comment,
                title |-> contrib.user]
    IN  base_parse_result(ret) @@ ret

\* UserRevisions.get_data, after get_query returned api_resp
UserRevisions_get_data(api_resp, w, prm) ==
    IF "query" \in DOMAIN api_resp /\ "usercontribs" \in DOMAIN api_resp.query
    THEN LET revisions == api_resp.query.usercontribs
         IN  [ok |-> TRUE,
              items |-> [i \in 1..Len(revisions) |->
                           UserRevisions_parse_result(revisions[i], w, prm)]]
    ELSE [ok |-> TRUE, items |-> <<>>]

(***************************************************************************)
(* The hashtag view.  A comment is a sequence of tokens                    *)
(* [hash |-> whether it starts with '#', word |-> its text]; the compact   *)
(* timestamp "YYYYMMDDHHMMSS" is [compact |-> time tuple].                 *)
(***************************************************************************)
\* datetime.strptime(ts, '%Y%m%d%H%M%S').isoformat() + 'Z'
compact_to_iso(ts) == [iso |-> ts.compact, tz |-> "Z"]

\* NewHashtag.parse_result
NewHashtag_parse_result(rev, w, tag) ==
    LET date == compact_to_iso(rev.rc_timestamp)
        tags == find_hashtags(rev.rc_comment)
        u == <<"https", w, "diff", rev.rc_this_oldid, rev.rc_last_oldid>>
    IN  [raw_tags |-> tags,
         input_hashtag |-> tag,
         return_hashtags |-> [sep |-> " ", parts |-> tags],
         date |-> date,
         url |-> u,
         user |-> rev.rc_user_text,
         size |-> rev.rc_new_len - rev.rc_old_len,
         comment |-> rev.rc_comment,
         title |-> rev.rc_title,
         created_at |-> date,
         meta |-> [id |-> url_to_uuid5(u), timestamp |-> iso8601_to_epoch(date)]]

\* the filter that lets through every record that carries a hashtag
validate_tags_any(rev) == rev.raw_tags # <<>>

\* NewHashtag.validate_tags
validate_tags(rev) ==
    {rev.raw_tags[i] : i \in 1..Len(rev.raw_tags)} \ {"redirect", "ifexist", "if"} # {}

\* get_data without the filter: every record of the index is an item
NewHashtag_get_data_unfiltered(res, w, tag) ==
    [ok |-> TRUE,
     items |-> [i \in 1..Len(res.rows) |-> NewHashtag_parse_result(res.rows[i], w, tag)]]

\* NewHashtag.get_data, after the cache or the index returned res
NewHashtag_get_data(res, w, tag) ==
    LET parsed == [i \in 1..Len(res.rows) |-> NewHashtag_parse_result(res.rows[i], w, tag)]
        keep == [i \in 1..Len(parsed) |-> validate_tags(parsed[i])]
    IN  [ok |-> TRUE, items |-> FilterIdx(parsed, keep, 1)]

\* self.get_data() of class c, from the point where the payload is at hand
get_data_return(c, payload, w, prm, flds) ==
    CASE c \in FeedClasses -> feed_get_data(payload)
      [] c = "NewArticle" -> NewArticle_get_data(payload, w)
      [] c = "ArticleRevisions" -> ArticleRevisions_get_data(payload, w, prm)
      [] c = "UserRevisions" -> UserRevisions_get_data(payload, w, prm)
      [] c = "NewHashtag" -> NewHashtag_get_data(payload, w, flds["hashtag"])

(***************************************************************************)
(* The cache (werkzeug's SimpleCache): get returns the value while the     *)
(* entry's expiry lies in the future, None otherwise; set stores the value *)
(* with expiry now + timeout.                                              *)
(***************************************************************************)
Live(k) == k \in DOMAIN cache /\ cache[k].expires > now

cache_get(k) == IF Live(k) THEN cache[k].value ELSE None

cache_set(k, v, timeout) ==
    [x \in DOMAIN cache \cup {k} |->
        IF x = k THEN [expires |-> now + timeout, value |-> v] ELSE cache[x]]

(***************************************************************************)
(* BaseTriggerView.post: the request, the fields, the validation.          *)
(***************************************************************************)
\* flask.request.get_json(force=True, silent=True) or {}
get_params(body) == IF body = None \/ DOMAIN body = {} THEN EmptyDict ELSE body

\* self.params.get('triggerFields', {})
trigger_values_of(prm) ==
    IF "triggerFields" \in DOMAIN prm THEN prm.triggerFields ELSE EmptyDict

\* self.params.get('limit', DEFAULT_RESP_LIMIT)
limit_of(prm) == IF "limit" \in DOMAIN prm THEN prm.limit ELSE DEFAULT_RESP_LIMIT

\* the loop without the substitution of the default
resolve_field_no_default(value, default_value) == value

\* the value self.fields[field] holds when the loop reaches the test of it
resolve_field(value, default_value) ==
    IF value = "" /\ default_value \notin TEST_FIELDS THEN default_value ELSE value

\* self.fields once the loop has gone through every field of default_fields
post_fields(c, prm) ==
    [f \in DOMAIN default_fields(c) |->
        resolve_field(DictGet(trigger_values_of(prm), f), default_fields(c)[f])]

\* the loop without its abort
post_never_aborts(c, prm) == FALSE

\* the loop with the test `is None` where the code has `not`
post_aborts_on_missing_only(c, prm) ==
    \E f \in DOMAIN default_fields(c) : post_fields(c, prm)[f] = NoneStr

\* whether the loop reaches flask.abort(400)
post_aborts(c, prm) ==
    \E f \in DOMAIN default_fields(c) : FalsyStr(post_fields(c, prm)[f])

\* logging.info('%s: %s' % (self.__class__.__name__, trigger_identity))
log_record(c, prm) == [name |-> c, trigger_identity |-> DictGet(prm, "trigger_identity")]

NoWiki == <<NoneStr, NoneStr>>
NoUrl == <<NoneStr>>

\* A worker takes a request for view c with JSON body `body` and runs post up
\* to the call of get_data.  The dictionary order of default_fields does not
\* change whether the loop aborts; fields holds the whole resolution.
Post(p, c, body) ==
    /\ pc[p] \in {"idle", "done"}
    /\ LET prm == get_params(body)
           rejected == post_aborts(c, prm)
       IN  /\ cls' = [cls EXCEPT ![p] = c]
           /\ params' = [params EXCEPT ![p] = prm]
           /\ fields' = [fields EXCEPT ![p] = post_fields(c, prm)]
           /\ pc' = [pc EXCEPT ![p] = IF rejected THEN "done" ELSE "get_data"]
           /\ status' = [status EXCEPT ![p] = IF rejected THEN 400 ELSE 0]
           /\ log' = [log EXCEPT ![p] = IF rejected THEN <<>> ELSE <<log_record(c, prm)>>]
    /\ wiki' = [wiki EXCEPT ![p] = NoWiki]
    /\ url' = [url EXCEPT ![p] = NoUrl]
    /\ resp' = [resp EXCEPT ![p] = None]
    /\ items' = [items EXCEPT ![p] = <<>>]
    /\ data' = [data EXCEPT ![p] = <<>>]
    /\ calls' = [calls EXCEPT ![p] = 0]
    /\ UNCHANGED <<cache, now, query_params, failed>>

(***************************************************************************)
(* get_data up to the cache read.                                          *)
(***************************************************************************)
\* self._base_url.format(self) of a feed view
feed_url(c, w) == <<"https", w, "featuredfeed", feed_name(c)>>

\* '%s?%s' % (self._base_url.format(self), urlencode(self.query_params))
query_url(c, w, qp) ==
    <<"http", w, query_list(c), IF c = "NewArticle" THEN "new" ELSE qp[c]>>

\* the key NewHashtag.get_data reads and writes
hashtag_key(tag) == IF tag = "" THEN <<"allhashtags">> ELSE <<"hashtags", tag>>

\* the step that ends with the cache read of key k
ReadCache(p, k) ==
    /\ url' = [url EXCEPT ![p] = k]
    /\ resp' = [resp EXCEPT ![p] = cache_get(k)]
    /\ pc' = [pc EXCEPT ![p] = IF Truthy(cache_get(k)) THEN "parse" ELSE "fetch"]
    /\ UNCHANGED failed

\* BaseFeaturedFeedTriggerView.get_data -> get_feed, to the cache read
GetFeed(p) ==
    /\ pc[p] = "get_data" /\ cls[p] \in FeedClasses
    /\ wiki' = [wiki EXCEPT ![p] = wiki_of(cls[p], fields[p])]
    /\ ReadCache(p, feed_url(cls[p], wiki_of(cls[p], fields[p])))
    /\ UNCHANGED <<cache, now, query_params, cls, params, fields, items, data, status, log, calls>>

\* ArticleRevisions/UserRevisions.get_query: the write into the class's
\* query_params, before super().get_query() is called
SetQueryParam(p) ==
    /\ pc[p] = "get_data" /\ cls[p] \in ParamClasses
    /\ wiki' = [wiki EXCEPT ![p] = wiki_of(cls[p], fields[p])]
    /\ query_params' = [query_params EXCEPT ![cls[p]] = fields[p][param_field(cls[p])]]
    /\ pc' = [pc EXCEPT ![p] = "get_query"]
    /\ UNCHANGED <<cache, now, cls, params, fields, url, resp, items, data, status, log, calls,
                   failed>>

\* BaseAPIQueryTriggerView.get_query, to the cache read
GetQuery(p) ==
    /\ pc[p] = "get_query"
    /\ ReadCache(p, query_url(cls[p], wiki[p], query_params))
    /\ UNCHANGED <<cache, now, query_params, cls, params, fields, wiki, items, data,
                   status, log, calls>>

\* NewArticle.get_data -> get_query, to the cache read
NewArticleGetQuery(p) ==
    /\ pc[p] = "get_data" /\ cls[p] = "NewArticle"
    /\ wiki' = [wiki EXCEPT ![p] = wiki_of(cls[p], fields[p])]
    /\ ReadCache(p, query_url(cls[p], wiki_of(cls[p], fields[p]), query_params))
    /\ UNCHANGED <<cache, now, query_params, cls, params, fields, items, data, status, log, calls>>

\* NewHashtag.get_data, to the cache read
GetHashtags(p) ==
    /\ pc[p] = "get_data" /\ cls[p] = "NewHashtag"
    /\ wiki' = [wiki EXCEPT ![p] = wiki_of(cls[p], fields[p])]
    /\ ReadCache(p, hashtag_key(fields[p]["hashtag"]))
    /\ UNCHANGED <<cache, now, query_params, cls, params, fields, items, data, status, log, calls>>

(***************************************************************************)
(* The upstream call on a miss, the cache write, the rest of get_data and  *)
(* the response.                                                           *)
(***************************************************************************)
\* urllib2.urlopen + feedparser.parse / json.load, get_hashtags or
\* get_all_hashtags returns payload
Fetch(p, payload) ==
    /\ pc[p] = "fetch"
    /\ resp' = [resp EXCEPT ![p] = payload]
    /\ calls' = [calls EXCEPT ![p] = @ + 1]
    /\ pc' = [pc EXCEPT ![p] = "cache_set"]
    /\ failed' = NoUrl
    /\ UNCHANGED <<cache, now, query_params, cls, params, fields, wiki, url, items, data,
                   status, log>>

\* the failure handled by caching an error payload under the key
FetchFailsAndCaches(p) ==
    /\ pc[p] = "fetch"
    /\ status' = [status EXCEPT ![p] = 500]
    /\ calls' = [calls EXCEPT ![p] = @ + 1]
    /\ pc' = [pc EXCEPT ![p] = "done"]
    /\ failed' = url[p]
    /\ cache' = cache_set(url[p], [error |-> TRUE], CACHE_EXPIRATION)
    /\ UNCHANGED <<now, query_params, cls, params, fields, wiki, url, resp, items, data, log>>

\* the upstream call raises: the exception leaves post, the response is a 500
FetchFails(p) ==
    /\ pc[p] = "fetch"
    /\ status' = [status EXCEPT ![p] = 500]
    /\ calls' = [calls EXCEPT ![p] = @ + 1]
    /\ pc' = [pc EXCEPT ![p] = "done"]
    /\ failed' = url[p]
    /\ UNCHANGED <<cache, now, query_params, cls, params, fields, wiki, url, resp, items,
                   data, log>>

\* the cache write under a key built anew from query_params
CacheSetUnderNewKey(p) ==
    /\ pc[p] = "cache_set"
    /\ cache' = cache_set(IF cls[p] \in ParamClasses
                          THEN query_url(cls[p], wiki[p], query_params)
                          ELSE url[p],
                          resp[p], CACHE_EXPIRATION)
    /\ pc' = [pc EXCEPT ![p] = "parse"]
    /\ UNCHANGED <<now, query_params, cls, params, fields, wiki, url, resp, items, data,
                   status, log, calls, failed>>

\* cache.set(url, resp, timeout=CACHE_EXPIRATION)
CacheSet(p) ==
    /\ pc[p] = "cache_set"
    /\ cache' = cache_set(url[p], resp[p], CACHE_EXPIRATION)
    /\ pc' = [pc EXCEPT ![p] = "parse"]
    /\ UNCHANGED <<now, query_params, cls, params, fields, wiki, url, resp, items, data,
                   status, log, calls, failed>>

\* the rest of get_data: the records are extracted, parsed, sorted, filtered
GetDataReturn(p) ==
    /\ pc[p] = "parse"
    /\ LET r == get_data_return(cls[p], resp[p], wiki[p], params[p], fields[p])
       IN  /\ items' = [items EXCEPT ![p] = r.items]
           /\ pc' = [pc EXCEPT ![p] = IF r.ok THEN "limit" ELSE "done"]
           /\ status' = [status EXCEPT ![p] = IF r.ok THEN 0 ELSE 500]
    /\ failed' = NoUrl
    /\ UNCHANGED <<cache, now, query_params, cls, params, fields, wiki, url, resp, data, log, calls>>

\* the slice that keeps one item more
truncate_one_more(seq, limit) == Take(seq, limit + 1)

\* data = data[:limit]; return flask.jsonify(data=data)
truncate(seq, limit) == Take(seq, limit)

Respond(p) ==
    /\ pc[p] = "limit"
    /\ data' = [data EXCEPT ![p] = truncate(items[p], limit_of(params[p]))]
    /\ status' = [status EXCEPT ![p] = 200]
    /\ pc' = [pc EXCEPT ![p] = "done"]
    /\ UNCHANGED <<cache, now, query_params, cls, params, fields, wiki, url, resp, items, log, calls, failed>>

\* time passes
Tick ==
    /\ now + TickSeconds <= MaxTicks * TickSeconds
    /\ now' = now + TickSeconds
    /\ UNCHANGED <<cache, query_params, pc, cls, params, fields, wiki, url, resp, items,
                   data, status, log, calls, failed>>

Init ==
    /\ cache = EmptyDict
    /\ now = 0
    /\ query_params = [c \in ParamClasses |-> NoneStr]
    /\ pc = [p \in Procs |-> "idle"]
    /\ cls = [p \in Procs |-> "PictureOfTheDay"]
    /\ params = [p \in Procs |-> EmptyDict]
    /\ fields = [p \in Procs |-> EmptyDict]
    /\ wiki = [p \in Procs |-> NoWiki]
    /\ url = [p \in Procs |-> NoUrl]
    /\ resp = [p \in Procs |-> None]
    /\ items = [p \in Procs |-> <<>>]
    /\ data = [p \in Procs |-> <<>>]
    /\ status = [p \in Procs |-> 0]
    /\ log = [p \in Procs |-> <<>>]
    /\ calls = [p \in Procs |-> 0]
    /\ failed = NoUrl

(***************************************************************************)
(* What the requests and the upstream services range over.                 *)
(***************************************************************************)
SeqsUpTo(S, n) == UNION {[1..k -> S] : k \in 0..n}

Jan1 == <<2015, 1, 1, 0, 0, 0>>
Jan2 == <<2015, 1, 2, 0, 0, 0>>
Noon2 == <<2015, 1, 2, 12, 30, 15>>

Entries ==
    {[id |-> <<"http", "//example.org/entry/1">>, published_parsed |-> Jan1],
     [id |-> <<"https", "//example.org/entry/2">>, published_parsed |-> Jan2]}

RecentChanges ==
    {[timestamp |-> utc_to_iso8601(t), title |-> "Tea", user |-> "Ann",
      newlen |-> 120, oldlen |-> 0, comment |-> "new"] : t \in {Jan1, Jan2}}

Revisions ==
    {[timestamp |-> utc_to_iso8601(t), revid |-> 12, parentid |-> 11, user |-> "Ann",
      size |-> 120, comment |-> "edit"] : t \in {Jan1, Jan2}}

Contribs ==
    {[timestamp |-> utc_to_iso8601(t), revid |-> 12, parentid |-> 11, user |-> "Ann",
      size |-> 120, comment |-> "edit", title |-> "Tea"] : t \in {Jan1, Jan2}}

Row(tokens) ==
    [rc_timestamp |-> [compact |-> Jan1], rc_comment |-> tokens,
     rc_this_oldid |-> 12, rc_last_oldid |-> 11, rc_user_text |-> "Ann",
     rc_new_len |-> 120, rc_old_len |-> 100, rc_title |-> "Tea"]

Rows ==
    {Row(<<[hash |-> TRUE, word |-> "redirect"]>>),
     Row(<<[hash |-> TRUE, word |-> "redirect"], [hash |-> TRUE, word |-> "Coffee"]>>)}

\* more rows than the default limit lets through
ManyRows ==
    [i \in 1..(DEFAULT_RESP_LIMIT + 1) |->
        Row(<<[hash |-> TRUE, word |-> IF i % 2 = 0 THEN "Coffee" ELSE "Tea"]>>)]

\* every payload an upstream call of view c may return
Upstream(c) ==
    CASE c \in FeedClasses -> {[entries |-> e] : e \in SeqsUpTo(Entries, MaxLen)}
      [] c = "NewArticle" ->
            {EmptyDict, [query |-> EmptyDict]}
            \cup {[query |-> [recentchanges |-> l]] : l \in SeqsUpTo(RecentChanges, MaxLen)}
      [] c = "ArticleRevisions" ->
            {EmptyDict, [query |-> EmptyDict], [query |-> [pages |-> EmptyDict]],
             [query |-> [pages |-> ("-1" :> [missing |-> ""])]]}
            \cup {[query |-> [pages |-> ("7" :> [revisions |-> l])]] :
                    l \in SeqsUpTo(Revisions, MaxLen)}
      [] c = "UserRevisions" ->
            {EmptyDict, [query |-> EmptyDict]}
            \cup {[query |-> [usercontribs |-> l]] : l \in SeqsUpTo(Contribs, MaxLen)}
      [] c = "NewHashtag" ->
            {[rows |-> l] : l \in SeqsUpTo(Rows, MaxLen)} \cup {[rows |-> ManyRows]}

\* the entries of the feeds the data checks run on: one resource is listed
\* under its http and under its https address
DataEntries ==
    Entries \cup {[id |-> <<"https", "//example.org/entry/1">>, published_parsed |-> Noon2]}

\* the rows of the index the data checks run on: edits without a hashtag and
\* with nothing but structural hashtags among them
TagRows ==
    Rows \cup {Row(<<[hash |-> FALSE, word |-> "typo"]>>),
               Row(<<[hash |-> TRUE, word |-> "ifexist"], [hash |-> TRUE, word |-> "if"]>>)}

\* every payload an upstream call of view c may return, with the richer feeds
UpstreamData(c) ==
    CASE c \in FeedClasses -> {[entries |-> e] : e \in SeqsUpTo(DataEntries, MaxLen)}
      [] OTHER -> Upstream(c)

\* every list of rows the index may return for a hashtag
UpstreamTags == {[rows |-> l] : l \in SeqsUpTo(TagRows, MaxLen)}

\* one payload per view: a feed of one entry, a response with one record
UpstreamOne(c) ==
    CASE c \in FeedClasses -> {[entries |-> <<e>>] : e \in {x \in Entries : x.published_parsed = Jan1}}
      [] c = "NewArticle" ->
            {[query |-> [recentchanges |-> <<r>>]] :
                r \in {x \in RecentChanges : x.timestamp.iso = Jan1}}
      [] c = "ArticleRevisions" ->
            {[query |-> [pages |-> ("7" :> [revisions |-> <<r>>])]] :
                r \in {x \in Revisions : x.timestamp.iso = Jan1}}
      [] c = "UserRevisions" ->
            {[query |-> [usercontribs |-> <<r>>]] :
                r \in {x \in Contribs : x.timestamp.iso = Jan1}}
      [] c = "NewHashtag" -> {[rows |-> <<r, r>>] : r \in Rows}

\* what the upstream returns to a call of view c for key k: the page of the
\* title asked for, the contributions of the user asked for, the edits that
\* carry the hashtag asked for, the feed of the address asked for
UpstreamFor(c, k) ==
    CASE c \in FeedClasses ->
            {[entries |-> x.entries, href |-> k] : x \in UpstreamOne(c)}
      [] c = "NewArticle" -> UpstreamOne(c)
      [] c = "ArticleRevisions" ->
            {[query |-> [pages |-> ("7" :> [title |-> k[4], revisions |-> <<r>>])]] :
                r \in {x \in Revisions : x.timestamp.iso = Jan1}}
      [] c = "UserRevisions" ->
            {[query |-> [usercontribs |-> <<[r EXCEPT !.user = k[4]]>>]] :
                r \in {x \in Contribs : x.timestamp.iso = Jan1}}
      [] c = "NewHashtag" ->
            {[rows |-> <<Row(<<[hash |-> TRUE, word |-> k[2]]>>)>>]}

\* the values a request gives a field: the empty string, or a name
FieldValues(f) ==
    CASE f = "lang" -> {"", "en"}
      [] f = "hashtag" -> {"", "test"}
      [] f = "title" -> {"", "Coffee"}
      [] f = "user" -> {"", "ClueBot"}

\* the names a request gives a field
FieldNames(f) ==
    CASE f = "lang" -> {"en"}
      [] f = "hashtag" -> {"test", "wiki"}
      [] f = "title" -> {"Coffee", "Tea"}
      [] f = "user" -> {"ClueBot", "Bob"}

\* the triggerFields objects over the fields of view c: any of the keys may
\* be missing, any value may be the empty string
TriggerFields(c) ==
    UNION {{d \in [S -> UNION {FieldValues(f) : f \in S}] :
              \A f \in S : d[f] \in FieldValues(f)} :
           S \in SUBSET DOMAIN default_fields(c)}

\* the triggerFields objects that name every field of view c
NamedTriggerFields(c) ==
    {d \in [DOMAIN default_fields(c) -> UNION {FieldNames(f) : f \in DOMAIN default_fields(c)}] :
        \A f \in DOMAIN d : d[f] \in FieldNames(f)}

\* the JSON bodies with triggerFields of TFs or none and a limit of Limits or none
BodiesOf(TFs, Limits) ==
    {tf @@ lim @@ ("trigger_identity" :> "id-1") :
        tf \in {EmptyDict} \cup {"triggerFields" :> d : d \in TFs},
        lim \in {EmptyDict} \cup {"limit" :> l : l \in Limits}}

\* every shape of request for view c: None is a body that is absent or does
\* not parse
AnyBody(c) == {None, EmptyDict} \cup BodiesOf(TriggerFields(c), {})

\* the requests for view c that name every field, with a limit or none
NamedBody(c, Limits) ==
    {b \in BodiesOf(NamedTriggerFields(c), Limits) : "triggerFields" \in DOMAIN b}

(***************************************************************************)
(* Spec: one worker serves requests of every shape for every view, one     *)
(* after the other; each view's upstream has one payload.                  *)
(***************************************************************************)
Next ==
    \/ \E c \in Classes : \E body \in AnyBody(c) : Post(1, c, body)
    \/ GetFeed(1)
    \/ SetQueryParam(1)
    \/ GetQuery(1)
    \/ NewArticleGetQuery(1)
    \/ GetHashtags(1)
    \/ \E payload \in UpstreamOne(cls[1]) : Fetch(1, payload)
    \/ FetchFails(1)
    \/ CacheSet(1)
    \/ GetDataReturn(1)
    \/ Respond(1)

Spec == Init /\ [][Next]_vars

\* a worker that serves one view, any view
InitView ==
    /\ cache = EmptyDict
    /\ now = 0
    /\ query_params = [c \in ParamClasses |-> NoneStr]
    /\ pc = [p \in Procs |-> "idle"]
    /\ cls \in {[p \in Procs |-> c] : c \in Classes}
    /\ params = [p \in Procs |-> EmptyDict]
    /\ fields = [p \in Procs |-> EmptyDict]
    /\ wiki = [p \in Procs |-> NoWiki]
    /\ url = [p \in Procs |-> NoUrl]
    /\ resp = [p \in Procs |-> None]
    /\ items = [p \in Procs |-> <<>>]
    /\ data = [p \in Procs |-> <<>>]
    /\ status = [p \in Procs |-> 0]
    /\ log = [p \in Procs |-> <<>>]
    /\ calls = [p \in Procs |-> 0]
    /\ failed = NoUrl

(***************************************************************************)
(* SpecCache: one worker serves well-formed requests for one view while    *)
(* the clock advances; the upstream returns any payload.                   *)
(***************************************************************************)
NextCache ==
    \/ \E body \in NamedBody(cls[1], {}) : Post(1, cls[1], body)
    \/ GetFeed(1)
    \/ SetQueryParam(1)
    \/ GetQuery(1)
    \/ NewArticleGetQuery(1)
    \/ GetHashtags(1)
    \/ \E payload \in Upstream(cls[1]) : Fetch(1, payload)
    \/ FetchFails(1)
    \/ CacheSet(1)
    \/ GetDataReturn(1)
    \/ Respond(1)
    \/ Tick

SpecCache == InitView /\ [][NextCache]_vars

(***************************************************************************)
(* SpecData: one worker serves well-formed requests with any limit for one *)
(* view; the upstream returns any payload.                                 *)
(***************************************************************************)
NextData ==
    \/ \E body \in NamedBody(cls[1], 0..MaxLimit) : Post(1, cls[1], body)
    \/ GetFeed(1)
    \/ SetQueryParam(1)
    \/ GetQuery(1)
    \/ NewArticleGetQuery(1)
    \/ GetHashtags(1)
    \/ \E payload \in UpstreamData(cls[1]) : Fetch(1, payload)
    \/ FetchFails(1)
    \/ CacheSet(1)
    \/ GetDataReturn(1)
    \/ Respond(1)

SpecData == InitView /\ [][NextData]_vars

(***************************************************************************)
(* SpecTags: one worker serves requests for the hashtag "test" with any    *)
(* limit; the index returns any list of rows, edits without a hashtag and  *)
(* with structural hashtags among them.                                    *)
(***************************************************************************)
InitTags == InitView /\ cls[1] = "NewHashtag"

TagBodies ==
    BodiesOf({[lang |-> "en", hashtag |-> "test"]}, 0..MaxLimit) \ BodiesOf({}, 0..MaxLimit)

NextTags ==
    \/ \E body \in TagBodies : Post(1, "NewHashtag", body)
    \/ GetHashtags(1)
    \/ \E payload \in UpstreamTags : Fetch(1, payload)
    \/ FetchFails(1)
    \/ CacheSet(1)
    \/ GetDataReturn(1)
    \/ Respond(1)

SpecTags == InitTags /\ [][NextTags]_vars

(***************************************************************************)
(* SpecThreads: two workers serve well-formed requests for one view, their *)
(* steps interleaved; the upstream answers each call with the payload of   *)
(* the key it was called for.                                              *)
(***************************************************************************)
InitThreads == InitView

NextThreads ==
    \E p \in Procs :
        \/ \E body \in NamedBody(cls[p], {}) : Post(p, cls[p], body)
        \/ GetFeed(p)
        \/ SetQueryParam(p)
        \/ GetQuery(p)
        \/ NewArticleGetQuery(p)
        \/ GetHashtags(p)
        \/ pc[p] = "fetch" /\ \E payload \in UpstreamFor(cls[p], url[p]) : Fetch(p, payload)
        \/ FetchFails(p)
        \/ CacheSet(p)
        \/ GetDataReturn(p)
        \/ Respond(p)

SpecThreads == InitThreads /\ [][NextThreads]_vars

(***************************************************************************)
(* The claims.                                                             *)
(***************************************************************************)
\* the value the request of worker p supplies for field f (NoneStr: none)
Supplied(p, f) == DictGet(trigger_values_of(params[p]), f)

\* every field of worker p's view other than f is supplied with a name
OthersNamed(p, f) ==
    \A g \in DOMAIN default_fields(cls[p]) \ {f} : ~FalsyStr(Supplied(p, g))

\* the default of field f of worker p's view is none of the test sentinels
PlainDefault(p, f) == default_fields(cls[p])[f] \notin TEST_FIELDS

\* C1: a request that omits the key of a field whose default is not a test
\* sentinel (its other fields named) has the field resolved to the default and
\* is not rejected with 400.
C1_OmittedKeyGetsDefault ==
    \A p \in Procs : \A f \in DOMAIN default_fields(cls[p]) :
        (/\ pc[p] # "idle"
         /\ PlainDefault(p, f)
         /\ Supplied(p, f) = NoneStr
         /\ OthersNamed(p, f))
        => (status[p] # 400 /\ fields[p][f] = default_fields(cls[p])[f])

\* C2, as claimed: a request that supplies the empty string for a field whose
\* default is not a test sentinel is rejected with 400.
C2_EmptyValueRejected ==
    \A p \in Procs : \A f \in DOMAIN default_fields(cls[p]) :
        (pc[p] # "idle" /\ PlainDefault(p, f) /\ Supplied(p, f) = "")
        => status[p] = 400

\* C2, amended: a request that supplies the empty string for a field whose
\* default is not a test sentinel is given the default for that field; it is
\* rejected only when another field is omitted or is empty with a sentinel
\* default, and otherwise goes on to the fetch with the default as the value.
C2_EmptyValueGetsDefault ==
    \A p \in Procs : \A f \in DOMAIN default_fields(cls[p]) :
        (pc[p] # "idle" /\ PlainDefault(p, f) /\ Supplied(p, f) = "")
        => /\ status[p] # 400 => fields[p][f] = default_fields(cls[p])[f]
           /\ status[p] = 400 =>
                \E g \in DOMAIN default_fields(cls[p]) \ {f} :
                    \/ Supplied(p, g) = NoneStr
                    \/ Supplied(p, g) = "" /\ ~PlainDefault(p, g)
           /\ OthersNamed(p, f) => status[p] # 400

\* C2's case: article_of_the_day asked with lang "" answers 200 for lang "en"
C2_Witness ==
    /\ cls[1] = "ArticleOfTheDay" /\ pc[1] = "done" /\ status[1] = 200
    /\ Supplied(1, "lang") = ""
    /\ fields[1]["lang"] = "en"
    /\ url[1] = feed_url("ArticleOfTheDay", <<"en", "wikipedia.org">>)

\* C3: a request that supplies the empty string for a field whose default is
\* a test sentinel (its other fields named) passes validation with the value ''.
C3_EmptyValueWithSentinelAccepted ==
    \A p \in Procs : \A f \in DOMAIN default_fields(cls[p]) :
        (/\ pc[p] # "idle"
         /\ ~PlainDefault(p, f)
         /\ Supplied(p, f) = ""
         /\ OthersNamed(p, f))
        => (status[p] # 400 /\ fields[p][f] = "")

\* the request of worker p resolves some field of its view to an empty value
ResolvesEmpty(p) ==
    \E f \in DOMAIN default_fields(cls[p]) :
        \/ Supplied(p, f) = NoneStr
        \/ Supplied(p, f) = "" /\ ~PlainDefault(p, f)

\* C5: an invocation one of whose fields resolves empty ends with a 400, has
\* read no cache entry, made no upstream call and produced no items, and the
\* step that rejects it leaves the cache as it was.
C5_RejectedBeforeAnyFetch ==
    [][\A p \in Procs :
          (pc'[p] # "idle" /\ ResolvesEmpty(p)')
          => /\ pc'[p] = "done" /\ status'[p] = 400
             /\ url'[p] = NoUrl /\ resp'[p] = None /\ calls'[p] = 0
             /\ items'[p] = <<>> /\ data'[p] = <<>>
             /\ cache' = cache /\ query_params' = query_params]_vars

\* C5's case: with entries in the cache, article_revisions asked with a lang
\* and an omitted or empty title is rejected
C5_Witness ==
    /\ DOMAIN cache # {}
    /\ cls[1] = "ArticleRevisions" /\ pc[1] = "done" /\ status[1] = 400
    /\ Supplied(1, "lang") = "en" /\ FalsyStr(Supplied(1, "title"))

\* C7: new_hashtag asked with a lang and the empty hashtag is not rejected:
\* it reads the all-hashtags key and answers 200 unless the lookup fails.
C7_EmptyHashtagMeansAll ==
    \A p \in Procs :
        (/\ pc[p] # "idle" /\ cls[p] = "NewHashtag"
         /\ ~FalsyStr(Supplied(p, "lang")) /\ Supplied(p, "hashtag") = "")
        => /\ status[p] \in {0, 200, 500}
           /\ pc[p] \in {"fetch", "cache_set", "parse", "limit"} => url[p] = <<"allhashtags">>
           /\ pc[p] = "done" /\ calls[p] = 0 => status[p] = 200

\* C4: an invocation calls the upstream exactly when the cache holds no entry
\* for its key that is within its TTL, whatever payload the entry holds: of two
\* sequential invocations for one key within the TTL only the first calls.
C4_OneUpstreamCallPerTTL ==
    [][\A p \in Procs :
          (pc[p] \in {"get_data", "get_query"} /\ pc'[p] \in {"fetch", "parse"})
          => (pc'[p] = "fetch" <=> ~Live(url'[p]))]_vars

\* C6: an invocation of article_revisions or user_revisions queries the url
\* built from its own title or user, whatever other invocations do meanwhile.
C6_OwnQueryUrl ==
    \A p \in Procs :
        (cls[p] \in ParamClasses /\ url[p] # NoUrl)
        => url[p] = <<"http", wiki_of(cls[p], fields[p]), query_list(cls[p]),
                      fields[p][param_field(cls[p])]>>

\* the response r to a query of view c lacks a level of the structure the view
\* reads its records from
MissingStructure(c, r) ==
    \/ "query" \notin DOMAIN r
    \/ c = "NewArticle" /\ "recentchanges" \notin DOMAIN r.query
    \/ c = "UserRevisions" /\ "usercontribs" \notin DOMAIN r.query
    \/ c = "ArticleRevisions" /\
         (\/ "pages" \notin DOMAIN r.query
          \/ DOMAIN r.query.pages = {}
          \/ \A k \in DOMAIN r.query.pages : "revisions" \notin DOMAIN r.query.pages[k])

\* C8: when the response to an API query lacks a level of the expected
\* structure, get_data returns the empty list and the invocation answers 200
\* with no data.
C8_MissingStructureIsEmptyResult ==
    [][\A p \in Procs :
          (cls[p] \in QueryClasses /\ MissingStructure(cls[p], resp[p]))
          => /\ (pc[p] = "parse" /\ pc'[p] # "parse")
                  => (pc'[p] = "limit" /\ items'[p] = <<>> /\ status'[p] # 500)
             /\ (pc[p] = "limit" /\ pc'[p] # "limit")
                  => (pc'[p] = "done" /\ status'[p] = 200 /\ data'[p] = <<>>)]_vars

\* the limit the request of worker p asks for, 50 when it names none
RequestedLimit(p) ==
    IF "limit" \in DOMAIN params[p] THEN params[p]["limit"] ELSE DEFAULT_RESP_LIMIT

\* the smaller of two numbers
Min(a, b) == IF a < b THEN a ELSE b

\* C9: the data of a 200 response are the first min(L, N) of the N items
\* get_data returned, in their order, L being the requested limit or 50.
C9_DataIsPrefixOfItems ==
    \A p \in Procs :
        (pc[p] = "done" /\ status[p] = 200)
        => /\ Len(data[p]) = Min(RequestedLimit(p), Len(items[p]))
           /\ \A i \in 1..Len(data[p]) : data[p][i] = items[p][i]

\* C9's case: a limit of 1 over two different items returns the first
C9_Witness ==
    /\ pc[1] = "done" /\ status[1] = 200
    /\ "limit" \in DOMAIN params[1] /\ params[1]["limit"] = 1
    /\ Len(items[1]) = 2 /\ items[1][1] # items[1][2]
    /\ data[1] = <<items[1][1]>>

\* C9's other case: no limit in the request and 51 items, of which 50 return
C9_DefaultLimitCase ==
    /\ pc[1] = "done" /\ status[1] = 200
    /\ "limit" \notin DOMAIN params[1]
    /\ Len(items[1]) = DEFAULT_RESP_LIMIT + 1
    /\ Len(data[1]) = DEFAULT_RESP_LIMIT

\* the number of positions of seq that P holds of
CountIdx(seq, P(_)) == Cardinality({i \in 1..Len(seq) : P(seq[i])})

\* C10: the items of a feed view are the feed's entries ordered by
\* publication time, most recent first, from the cache as from the upstream;
\* so the data are the min(L, N) most recently published entries.
C10_FeedMostRecentFirst ==
    \A p \in Procs :
        (cls[p] \in FeedClasses /\ pc[p] = "done" /\ status[p] = 200)
        => LET es == resp[p].entries
               Epoch(e) == utc_to_epoch(e.published_parsed)
           IN  /\ Len(items[p]) = Len(es)
               /\ \A k \in 1..Len(es) :
                    LET Same(e) == e = es[k]
                        SameItem(it) == it.url = es[k].id
                                        /\ it.meta.timestamp = Epoch(es[k])
                    IN  CountIdx(es, Same) = CountIdx(items[p], SameItem)
               /\ \A i, j \in 1..Len(items[p]) :
                    i < j => items[p][i].meta.timestamp >= items[p][j].meta.timestamp
               /\ Len(data[p]) = Min(RequestedLimit(p), Len(es))
               /\ \A i \in 1..Len(data[p]) :
                    LET Newer(e) == Epoch(e) > data[p][i].meta.timestamp
                    IN  /\ CountIdx(es, Newer) < i
                        /\ data[p][i] = items[p][i]

\* C10's case: a feed whose older entry comes first, served from the cache and
\* cut to one item, returns the newer entry
C10_Witness ==
    /\ cls[1] \in FeedClasses /\ pc[1] = "done" /\ status[1] = 200
    /\ calls[1] = 0
    /\ Len(resp[1].entries) = 2
    /\ resp[1].entries[1].published_parsed = Jan1
    /\ resp[1].entries[2].published_parsed = Jan2
    /\ Len(data[1]) = 1
    /\ data[1][1].url = resp[1].entries[2].id
    /\ data[1][1].created_at = utc_to_iso8601(Jan2)

\* the hashtags of the edit summary of raw record row that are no structural
\* hashtags
SemanticTags(row) ==
    {row.rc_comment[i].word : i \in {j \in 1..Len(row.rc_comment) : row.rc_comment[j].hash}}
    \ {"redirect", "ifexist", "if"}

\* the positions of rows whose record carries a hashtag outside the denylist
Passing(rows) == {i \in 1..Len(rows) : SemanticTags(rows[i]) # {}}

\* the position of rows that holds the k-th passing record
KthPassing(rows, k) ==
    CHOOSE i \in Passing(rows) : Cardinality({j \in Passing(rows) : j <= i}) = k

\* C11: the result of new_hashtag holds a raw edit record (as its item)
\* exactly when the record's hashtags include one outside
\* {redirect, ifexist, if}: the result is the items of the passing records, one
\* each, in the order of the records.
C11_DenylistFilter ==
    \A p \in Procs :
        (cls[p] = "NewHashtag" /\ (pc[p] = "limit" \/ (pc[p] = "done" /\ status[p] = 200)))
        => LET rows == resp[p].rows
           IN  /\ Len(items[p]) = Cardinality(Passing(rows))
               /\ \A k \in 1..Len(items[p]) :
                    LET row == rows[KthPassing(rows, k)]
                    IN  /\ items[p][k].comment = row.rc_comment
                        /\ items[p][k].title = row.rc_title
                        /\ {items[p][k].raw_tags[i] : i \in 1..Len(items[p][k].raw_tags)}
                              \ {"redirect", "ifexist", "if"} # {}

\* C11's case: of an edit tagged #redirect and an edit tagged #redirect
\* #Coffee the result holds the second only
C11_Witness ==
    /\ cls[1] = "NewHashtag" /\ pc[1] = "done" /\ status[1] = 200
    /\ Len(resp[1].rows) = 2
    /\ find_hashtags(resp[1].rows[1].rc_comment) = <<"redirect">>
    /\ find_hashtags(resp[1].rows[2].rc_comment) = <<"redirect", "Coffee">>
    /\ Len(items[1]) = 1
    /\ items[1][1].raw_tags = <<"redirect", "Coffee">>

\* C11's other cases: an edit without a hashtag and an edit tagged #ifexist
\* #if give an empty result
C11_NoTagsCase ==
    /\ cls[1] = "NewHashtag" /\ pc[1] = "done" /\ status[1] = 200
    /\ Len(resp[1].rows) = 2
    /\ find_hashtags(resp[1].rows[1].rc_comment) = <<>>
    /\ find_hashtags(resp[1].rows[2].rc_comment) = <<"ifexist", "if">>
    /\ items[1] = <<>>

\* C20: the data of a new_hashtag response are the items of the first
\* min(L, K) of the K records that pass the denylist filter, in the order of
\* the index, L being the requested limit or 50: the filter runs over all the
\* records before the limit cuts.
C20_FilterBeforeLimit ==
    \A p \in Procs :
        (cls[p] = "NewHashtag" /\ pc[p] = "done" /\ status[p] = 200)
        => LET rows == resp[p].rows
               K == Cardinality(Passing(rows))
           IN  /\ Len(data[p]) = Min(RequestedLimit(p), K)
               /\ \A k \in 1..Len(data[p]) :
                    /\ data[p][k].comment = rows[KthPassing(rows, k)].rc_comment
                    /\ SemanticTags(rows[KthPassing(rows, k)]) # {}

\* C20's case: with a limit of 1, of an edit tagged #redirect and a later edit
\* tagged #redirect #Coffee the response holds the second
C20_Witness ==
    /\ cls[1] = "NewHashtag" /\ pc[1] = "done" /\ status[1] = 200
    /\ "limit" \in DOMAIN params[1] /\ params[1]["limit"] = 1
    /\ Len(resp[1].rows) = 2
    /\ SemanticTags(resp[1].rows[1]) = {}
    /\ SemanticTags(resp[1].rows[2]) = {"Coffee"}
    /\ Len(data[1]) = 1
    /\ data[1][1].comment = resp[1].rows[2].rc_comment

\* the upstream time of the record an item of view c was made from: the
\* published_parsed of the feed entry with the item's url, the timestamp of
\* the record at the item's position, the rc_timestamp of the row with the
\* item's comment
RecordTimes(c, payload, its, i) ==
    CASE c \in FeedClasses ->
            {payload.entries[k].published_parsed :
                k \in {j \in 1..Len(payload.entries) : payload.entries[j].id = its[i].url}}
      [] c = "NewArticle" -> {payload.query.recentchanges[i].timestamp.iso}
      [] c = "ArticleRevisions" ->
            {payload.query.pages[k].revisions[i].timestamp.iso : k \in DOMAIN payload.query.pages}
      [] c = "UserRevisions" -> {payload.query.usercontribs[i].timestamp.iso}
      [] c = "NewHashtag" ->
            {payload.rows[k].rc_timestamp.compact :
                k \in {j \in 1..Len(payload.rows) : payload.rows[j].rc_comment = its[i].comment}}

\* C12: of every item of every view, created_at is the ISO-8601 string (UTC,
\* 'Z') of the upstream time of the item's record and meta.timestamp is the
\* epoch seconds of that same instant.
C12_TimestampAgreement ==
    \A p \in Procs :
        (pc[p] = "limit" \/ (pc[p] = "done" /\ status[p] = 200))
        => \A i \in 1..Len(items[p]) :
             LET it == items[p][i]
             IN  /\ it.created_at.tz = "Z"
                 /\ it.created_at.iso \in RecordTimes(cls[p], resp[p], items[p], i)
                 /\ it.meta.timestamp = utc_to_epoch(it.created_at.iso)
                 /\ it.meta.timestamp = iso8601_to_epoch(it.created_at)

\* C12's case: a feed entry published 2015-01-02T12:30:15Z is returned with
\* that created_at and the timestamp 1420201815
C12_Witness ==
    /\ cls[1] \in FeedClasses /\ pc[1] = "done" /\ status[1] = 200
    /\ Len(data[1]) >= 1
    /\ data[1][1].created_at = [iso |-> <<2015, 1, 2, 12, 30, 15>>, tz |-> "Z"]
    /\ data[1][1].meta.timestamp = 1420201815

\* C12's other cases: a new article of 2015-01-02T00:00:00Z and a tagged edit
\* of 20150101000000
C12_QueryCase ==
    /\ cls[1] = "NewArticle" /\ pc[1] = "done" /\ status[1] = 200
    /\ Len(data[1]) >= 1
    /\ data[1][1].created_at = [iso |-> <<2015, 1, 2, 0, 0, 0>>, tz |-> "Z"]
    /\ data[1][1].meta.timestamp = 1420156800

C12_HashtagCase ==
    /\ cls[1] = "NewHashtag" /\ pc[1] = "done" /\ status[1] = 200
    /\ Len(data[1]) >= 1
    /\ data[1][1].created_at = [iso |-> <<2015, 1, 1, 0, 0, 0>>, tz |-> "Z"]
    /\ data[1][1].meta.timestamp = 1420070400

\* urls u1 and u2 differ in nothing but the scheme, http or https
SameButScheme(u1, u2) ==
    /\ u1[1] \in {"http", "https"} /\ u2[1] \in {"http", "https"}
    /\ u1[2] = u2[2]

\* C13: the meta.id and the entry_id of every feed item are the identifier of
\* the https form of the entry's url, in every invocation; so two entries
\* whose ids differ only in the scheme get the same identifier.
C13_SchemeInsensitiveId ==
    \A p \in Procs :
        (cls[p] \in FeedClasses /\ (pc[p] = "limit" \/ (pc[p] = "done" /\ status[p] = 200)))
        => /\ \A i \in 1..Len(items[p]) :
                /\ items[p][i].meta.id = url_to_uuid5(<<"https", items[p][i].url[2]>>)
                /\ items[p][i].entry_id = items[p][i].meta.id
           /\ \A i, j \in 1..Len(items[p]) :
                SameButScheme(items[p][i].url, items[p][j].url)
                => items[p][i].meta.id = items[p][j].meta.id

\* C13's case: a feed lists one resource under its http and under its https
\* address; the two items have one identifier
C13_Witness ==
    /\ cls[1] \in FeedClasses /\ pc[1] = "done" /\ status[1] = 200
    /\ Len(data[1]) = 2
    /\ data[1][1].url[1] = "https" /\ data[1][2].url[1] = "http"
    /\ data[1][1].url[2] = data[1][2].url[2]
    /\ data[1][1].meta.id = data[1][2].meta.id
    /\ data[1][1].entry_id = data[1][2].entry_id

\* the length of the wiki's revision with the id revid (0: no such revision,
\* the parent of a page's first revision); the records the upstream returns
\* describe revision 12, whose parent is revision 11
LengthOfRevision(revid) ==
    CASE revid = 12 -> 120
      [] revid = 11 -> 100
      [] OTHER -> 0

\* the new length minus the old length of the record the i-th item of view c
\* was made from
RecordDelta(c, payload, i) ==
    CASE c = "NewArticle" ->
            payload.query.recentchanges[i].newlen - payload.query.recentchanges[i].oldlen
      [] c = "ArticleRevisions" ->
            LET rev == payload.query.pages[CHOOSE k \in DOMAIN payload.query.pages : TRUE]
                           .revisions[i]
            IN  rev.size - LengthOfRevision(rev.parentid)
      [] c = "UserRevisions" ->
            payload.query.usercontribs[i].size
            - LengthOfRevision(payload.query.usercontribs[i].parentid)
      [] c = "NewHashtag" ->
            payload.rows[KthPassing(payload.rows, i)].rc_new_len
            - payload.rows[KthPassing(payload.rows, i)].rc_old_len

\* C14: the size of every item of new_article, article_revisions,
\* user_revisions and new_hashtag is the new length of the item's record minus
\* its old length.
C14_SizeIsDelta ==
    \A p \in Procs :
        (/\ cls[p] \in QueryClasses \cup {"NewHashtag"}
         /\ (pc[p] = "limit" \/ (pc[p] = "done" /\ status[p] = 200)))
        => \A i \in 1..Len(items[p]) :
             items[p][i].size = RecordDelta(cls[p], resp[p], i)

\* C14 holds of the two views that read both lengths from the record
C14_DeltaWhereBothLengthsAreRead ==
    \A p \in Procs :
        (/\ cls[p] \in {"NewArticle", "NewHashtag"}
         /\ (pc[p] = "limit" \/ (pc[p] = "done" /\ status[p] = 200)))
        => \A i \in 1..Len(items[p]) :
             items[p][i].size = RecordDelta(cls[p], resp[p], i)

\* the record that names the view and the trigger_identity of worker p's
\* request
OwnLogRecord(p) ==
    [name |-> cls[p],
     trigger_identity |-> IF "trigger_identity" \in DOMAIN params[p]
                          THEN params[p]["trigger_identity"] ELSE NoneStr]

\* C15: when an invocation has its response, accepted or rejected, the log
\* holds exactly one record of it, with the view's name and the request's
\* trigger_identity.
C15_EveryInvocationLogged ==
    \A p \in Procs : status[p] # 0 => log[p] = <<OwnLogRecord(p)>>

\* C15 holds of the invocations that pass the validation: they are logged
\* once, before get_data runs
C15_AcceptedInvocationLogged ==
    \A p \in Procs :
        (pc[p] # "idle" /\ status[p] # 400) => log[p] = <<OwnLogRecord(p)>>

\* a state in which get_data of worker p's invocation is running
InGetData(p) == pc[p] \in {"get_data", "get_query", "fetch", "cache_set", "parse"}

\* C16: while get_data runs, self.fields holds a non-empty value for every
\* field of the view's default_fields; an invocation is rejected with 400
\* exactly when some field resolved to no value or the empty string, and then
\* get_data never ran.
C16_FieldsNonEmptyAtFetch ==
    \A p \in Procs :
        /\ (InGetData(p) \/ pc[p] = "limit" \/ status[p] \in {200, 500})
            => /\ DOMAIN fields[p] = DOMAIN default_fields(cls[p])
               /\ \A f \in DOMAIN fields[p] : fields[p][f] # NoneStr /\ fields[p][f] # ""
        /\ (pc[p] # "idle" /\ \E f \in DOMAIN fields[p] : fields[p][f] \in {NoneStr, ""})
            => (pc[p] = "done" /\ status[p] = 400 /\ url[p] = NoUrl /\ calls[p] = 0)

\* C16's case: article_revisions asked with lang "" and a title is fetching
\* with the default lang "en" and the title
C16_Witness ==
    /\ cls[1] = "ArticleRevisions" /\ pc[1] = "fetch"
    /\ Supplied(1, "lang") = "" /\ fields[1]["lang"] = "en"
    /\ Supplied(1, "title") = "Coffee" /\ fields[1]["title"] = "Coffee"

\* the keys a step writes: those whose entry is new or differs
Written == {k \in DOMAIN cache' : k \notin DOMAIN cache \/ cache'[k] # cache[k]}

\* C17: no step replaces or changes the entry of a key that holds an entry
\* within its TTL: a step writes only keys without a live entry, and every
\* entry written expires 5 minutes after the write.
C17_LiveEntriesImmutable ==
    [][/\ DOMAIN cache \subseteq DOMAIN cache'
       /\ \A k \in Written : ~Live(k) /\ cache'[k].expires = now + 300]_vars

\* C17 holds of the TTL: every entry written expires 5 minutes after the write
C17_WritesUseFixedTTL ==
    [][\A k \in Written : cache'[k].expires = now + 300]_vars

\* C18: the step in which the upstream call fails is the invocation's only
\* upstream call, ends the invocation with a 500 and no data and leaves the
\* cache as it was; the next invocation that reads the key of the failed call
\* misses, and leaves its miss by an upstream call of its own.
C18_FailedFetchLeavesNoEntry ==
    [][\A p \in Procs :
          /\ (pc[p] = "fetch" /\ pc'[p] = "done")
             => /\ status'[p] = 500 /\ calls[p] = 0 /\ calls'[p] = 1
                /\ data'[p] = <<>>
                /\ cache' = cache
                /\ ~Truthy(cache_get(url[p]))'
          /\ (pc[p] \in {"get_data", "get_query"} /\ pc'[p] \in {"fetch", "parse"}
                /\ url'[p] = failed)
             => pc'[p] = "fetch"
          /\ (pc[p] = "fetch" /\ pc'[p] # "fetch" /\ url[p] = failed)
             => (calls[p] = 0 /\ calls'[p] = 1)]_vars

\* C18's case: the upstream call for a key failed and the invocation ended
\* with a 500; the next invocation for the key has read the cache and stands
\* before its own upstream call
C18_Witness ==
    /\ failed # NoUrl /\ failed = url[1]
    /\ pc[1] = "fetch" /\ calls[1] = 0 /\ status[1] = 0
    /\ failed \notin DOMAIN cache

\* C18's other case: the failed invocation itself, at its end
C18_FailedInvocation ==
    /\ pc[1] = "done" /\ status[1] = 500 /\ calls[1] = 1 /\ data[1] = <<>>
    /\ failed = url[1] /\ failed \notin DOMAIN cache

\* C19: every cache entry holds a payload the upstream returns to a call for
\* the entry's key: the page of the key's title, the contributions of the
\* key's user, the edits of the key's hashtag, the feed of the key's address.
C19_EntryIsPayloadOfItsKey ==
    \A k \in DOMAIN cache : cache[k].value \in UpstreamFor(cls[1], k)

\* C19's case: two invocations of article_revisions for different titles ran
\* interleaved, one of them querying the other's url, and the cache holds an
\* entry
C19_Witness ==
    /\ cls[1] = "ArticleRevisions"
    /\ pc[1] = "done" /\ status[1] = 200
    /\ pc[2] = "done" /\ status[2] = 200
    /\ fields[1]["title"] # fields[2]["title"]
    /\ url[1] = url[2] /\ url[1] \in DOMAIN cache
    /\ cache[url[1]].value.query.pages["7"].title = url[1][4]

\* C19's other case: the entries of two hashtags side by side
C19_HashtagCase ==
    /\ cls[1] = "NewHashtag"
    /\ DOMAIN cache = {<<"hashtags", "test">>, <<"hashtags", "wiki">>}

====
